---- MODULE Spec2Model ----
(***************************************************************************)
(* A model of get_cluster_report.py (MongoDB Atlas cluster report).        *)
(*                                                                         *)
(* Four specifications share the module's variables, each driving one     *)
(* part of the program and leaving the other parts idle:                  *)
(*   SpecApiGet     api_get: one request with its retry/backoff loop      *)
(*   SpecApiGetAll  api_get_all: the page walker                          *)
(*   SpecFilter     filter_projects                                       *)
(*   SpecMain       main: credentials, tenant listing, filter, the        *)
(*                  worker pool fan-out with get_session, and the output  *)
(***************************************************************************)
EXTENDS Integers, Sequences, FiniteSets, TLC

VARIABLES
    \* ---- api_get ----
    max_attempts,   \* config.max_attempts
    attempt,        \* the loop variable of "for attempt in range(max_attempts)"
    backoff,        \* the local backoff
    gpc,            \* "attempt": about to issue a request; "returned"
    ret,            \* api_get's return value ("unset" until it returns)
    sleeps,         \* the arguments of the time.sleep calls, in order
    hist            \* the outcome of every request issued so far, in order

getVars == <<max_attempts, attempt, backoff, gpc, ret, sleeps, hist>>

VARIABLES
    \* ---- api_get_all ----
    items_per_page, \* config.items_per_page
    srv,            \* the endpoint: what it holds and how it answers
    page,           \* the local page
    results,        \* the local results
    reqlog,         \* the params of every api_get call made so far, in order
    noData,         \* the page whose fetch yielded no data (0: none did)
    apc             \* "loop": in the while loop; "returned"

allVars == <<items_per_page, srv, page, results, reqlog, noData, apc>>

VARIABLES
    \* ---- filter_projects ----
    fprojects,      \* the argument projects
    finclude,       \* config.include_projects
    fexclude,       \* config.exclude_projects
    fresult,        \* the returned list
    fpc             \* "call": not yet called; "done"

filterVars == <<fprojects, finclude, fexclude, fresult, fpc>>

VARIABLES
    \* ---- main ----
    mpc,            \* main's position (see the actions)
    exit_reason,    \* why main called sys.exit(1) ("" while it has not)
    max_workers,    \* config.max_workers, as parsed (0 until parsed)
    creds,          \* "unread", or whether both ATLAS keys are set: "set", "missing"
    include_projects, \* config.include_projects
    exclude_projects, \* config.exclude_projects
    fetched,        \* what api_get_all("/groups") returned
    projects,       \* the local projects
    filter_ran,     \* filter_projects was called
    session,        \* the global _session: 0 for None, else the client's number
    clients,        \* the requests.Session objects created so far, in order
    handed,         \* what get_session returned: the client and its state then
    touched,        \* a client was configured after get_session had returned it
    tpc,            \* per thread (0: main, 1..: pool workers) its position
    pool_size,      \* max_workers of the ThreadPoolExecutor (0: none created)
    queue,          \* the executor's work queue: submitted, not yet started
    task,           \* per worker the task (index into projects) it runs
    fut,            \* per submitted task the state of its future
    collected,      \* the futures as_completed has yielded so far
    reports,        \* the local reports
    api_requests,   \* the number of HTTP requests issued
    emitted         \* the outputs written: "table", "summary", "json", "export"

mainVars ==
    <<mpc, exit_reason, max_workers, creds, include_projects, exclude_projects,
      fetched, projects, filter_ran, session, clients, handed, touched, tpc,
      pool_size, queue, task, fut, collected, reports, api_requests, emitted>>

VARIABLES
    \* ---- is_large_tier ----
    tier_arg,       \* the argument tier
    highlight_threshold, \* config.highlight_threshold
    is_large,       \* the returned value ("unset" until it returns)
    lpc             \* "call": not yet called; "done"

tierVars == <<tier_arg, highlight_threshold, is_large, lpc>>

VARIABLES
    \* ---- print_report, export_report ----
    rreports,       \* the argument reports of both functions
    sort_by,        \* config.sort_by
    rows,           \* print_report's local rows when the table is printed
    ppc,            \* print_report: "call", "done", or "raised"
    out_file,       \* what export_report wrote to path
    xpc             \* export_report: "call" or "done"

reportVars == <<rreports, sort_by, rows, ppc, out_file, xpc>>

vars == <<getVars, allVars, filterVars, mainVars, tierVars, reportVars>>

\* ------------------------------------------------------------------------
\* Bounds of the model
\* ------------------------------------------------------------------------
MaxAttempts == 3        \* config.max_attempts ranges over 1..MaxAttempts
MaxHeaderLen == 2       \* a Retry-After header value has at most this many characters
MaxItems == 4           \* the endpoint holds 0..MaxItems items
MaxPageSize == 3        \* config.items_per_page ranges over 1..MaxPageSize
MaxProjects == 2        \* filter_projects is given at most this many tenants
MaxPatterns == 2        \* at most this many inclusion (and exclusion) patterns
MaxWorkers == 2         \* --max-workers ranges over 0..MaxWorkers
MaxTenants == 3         \* the tenant listing returns at most this many tenants
MaxThreshold == 11      \* config.highlight_threshold ranges over 0..MaxThreshold
MaxTierNum == 12        \* the tiers "M{n}" and "R{n}" have n in 0..MaxTierNum
MaxRows == 3            \* the reports flatten to at most this many table rows

\* ------------------------------------------------------------------------
\* Helpers
\* ------------------------------------------------------------------------
Max(a, b) == IF a >= b THEN a ELSE b

Min(a, b) == IF a <= b THEN a ELSE b

RECURSIVE Pow2(_)
Pow2(n) == IF n = 0 THEN 1 ELSE 2 * Pow2(n - 1)

\* All sequences over S of length at most n.
SeqsUpTo(S, n) == UNION {[1..k -> S] : k \in 0..n}

\* ------------------------------------------------------------------------
\* api_get (src/get_cluster_report.py:74-108)
\* ------------------------------------------------------------------------
\* Python's None, as api_get returns it.
None == "None"

\* The decoded bodies r.json() may return (opaque here).
Bodies == {"body1", "body2"}

\* The characters a Retry-After header value is made of: a decimal digit and a
\* character that is not one.  A header value is a sequence of characters;
\* the absent header reads as the empty string (headers.get("Retry-After", "")).
HeaderChars == {"1", "x"}

DigitChars == {"1"}

DigitValue(c) == IF c = "1" THEN 1 ELSE 0

RetryAfterValues == SeqsUpTo(HeaderChars, MaxHeaderLen)

\* str.isdigit(): non-empty and every character a digit.
IsDigit(s) == s # <<>> /\ \A i \in 1..Len(s) : s[i] \in DigitChars

\* int(s) of a string of decimal digits.
RECURSIVE IntOf(_)
IntOf(s) ==
    IF s = <<>> THEN 0
    ELSE 10 * IntOf(SubSeq(s, 1, Len(s) - 1)) + DigitValue(s[Len(s)])

\* The statuses for which raise_for_status raises HTTPError that the model draws.
ErrorStatuses == {404, 429, 500, 502, 503, 504}

\* Line 87: the statuses api_get retries.
RetryableStatuses == {429, 500, 502, 503, 504}

\* The outcomes of one request.  An HTTP error response carries its status, its
\* Retry-After header and `double`: FALSE for a requests.Response of the
\* requests library, TRUE for a test double (the tests' MagicMock).
OkOutcomes == [kind : {"ok"}, body : Bodies]

HttpErrorOutcomes ==
    [kind : {"http"}, status : ErrorStatuses, retry_after : RetryAfterValues,
     double : BOOLEAN]

ConnOutcome == [kind |-> "conn"]

\* Line 85, "e.response if ...": the truth value of the response object.
\* requests.Response.__bool__ returns self.ok, which is False for every status
\* of 400 and above, so the response of an HTTPError raised by
\* raise_for_status is falsy; a MagicMock is truthy.
ResponseTruthy(resp) == resp.double \/ resp.status < 400

\* Line 85: status = e.response.status_code if e.response else None
NoStatus == 0
StatusOf(resp) == IF ResponseTruthy(resp) THEN resp.status ELSE NoStatus

\* Lines 86-89: the retry condition of the HTTPError handler.
ShouldRetryHTTP(status, att, maxatt) ==
    status \in RetryableStatuses /\ att < maxatt - 1

\* Lines 90-91: wait = max(backoff, int(retry) if retry.isdigit() else 0)
WaitOf(b, retry) == Max(b, IF IsDigit(retry) THEN IntOf(retry) ELSE 0)

\* The parts of the program a specification does not drive stay as they are here.
IdleApiGet ==
    /\ max_attempts = 1
    /\ attempt = 0
    /\ backoff = 1
    /\ gpc = "idle"
    /\ ret = "unset"
    /\ sleeps = <<>>
    /\ hist = <<>>

InitApiGet ==
    /\ max_attempts \in 1..MaxAttempts
    /\ attempt = 0
    /\ backoff = 1
    /\ gpc = "attempt"
    /\ ret = "unset"
    /\ sleeps = <<>>
    /\ hist = <<>>

\* Lines 79-83: the request succeeds and its decoded body is returned.
ApiGetSuccess ==
    /\ gpc = "attempt"
    /\ attempt < max_attempts
    /\ \E o \in OkOutcomes :
        /\ hist' = Append(hist, o)
        /\ ret' = o.body
    /\ gpc' = "returned"
    /\ UNCHANGED <<max_attempts, attempt, backoff, sleeps>>
    /\ UNCHANGED <<allVars, filterVars, mainVars, tierVars, reportVars>>

\* Lines 84-99: raise_for_status raised HTTPError.
ApiGetHTTPError ==
    /\ gpc = "attempt"
    /\ attempt < max_attempts
    /\ \E o \in HttpErrorOutcomes :
        /\ hist' = Append(hist, o)
        /\ IF ShouldRetryHTTP(StatusOf(o), attempt, max_attempts)
           THEN /\ sleeps' = Append(sleeps, WaitOf(backoff, o.retry_after))
                /\ backoff' = backoff * 2
                /\ attempt' = attempt + 1
                /\ UNCHANGED <<gpc, ret>>
           ELSE /\ ret' = None
                /\ gpc' = "returned"
                /\ UNCHANGED <<sleeps, backoff, attempt>>
    /\ UNCHANGED max_attempts
    /\ UNCHANGED <<allVars, filterVars, mainVars, tierVars, reportVars>>

\* Lines 100-107: any other RequestException (connection error, timeout).
ApiGetRequestException ==
    /\ gpc = "attempt"
    /\ attempt < max_attempts
    /\ hist' = Append(hist, ConnOutcome)
    /\ IF attempt < max_attempts - 1
       THEN /\ sleeps' = Append(sleeps, backoff)
            /\ backoff' = backoff * 2
            /\ attempt' = attempt + 1
            /\ UNCHANGED <<gpc, ret>>
       ELSE /\ ret' = None
            /\ gpc' = "returned"
            /\ UNCHANGED <<sleeps, backoff, attempt>>
    /\ UNCHANGED max_attempts
    /\ UNCHANGED <<allVars, filterVars, mainVars, tierVars, reportVars>>

NextApiGet ==
    \/ ApiGetSuccess
    \/ ApiGetHTTPError
    \/ ApiGetRequestException

\* ------------------------------------------------------------------------
\* api_get_all (src/get_cluster_report.py:111-129)
\* ------------------------------------------------------------------------
\* The endpoint holds the items 1..K and serves page n as the items
\* (n-1)*P+1 .. min(n*P, K).  total: "exact" when the body carries
\* totalCount = K, "absent" when it carries no totalCount, "under" and "over"
\* when it carries a totalCount one below K (not below 0) or one above K.
\* fail_at: the page
\* whose fetch yields no data (0: none); fail_kind: "None" when api_get returns
\* None there, "noresults" when the body has no "results" key.
Servers ==
    [K : 0..MaxItems, total : {"exact", "absent", "under", "over"},
     fail_at : 0..(MaxItems + 1), fail_kind : {"None", "noresults"}]

\* The items i..j in order (empty when j < i).
Range(i, j) == [k \in 1..(IF j >= i THEN j - i + 1 ELSE 0) |-> i + k - 1]

PageItems(K, P, n) == Range((n - 1) * P + 1, Min(n * P, K))

\* The totalCount the endpoint's bodies carry (when they carry one).
ReportedTotal(s) ==
    IF s.total = "under" THEN Max(s.K - 1, 0)
    ELSE IF s.total = "over" THEN s.K + 1
    ELSE s.K

\* What api_get(endpoint, {pageNum: n, itemsPerPage: P}) returns: None, or the
\* decoded body (has_results / has_total: whether the key is in the dict).
ApiGetPage(s, P, n) ==
    IF s.fail_at = n /\ s.fail_kind = "None"
    THEN [kind |-> "None", has_results |-> FALSE, results |-> <<>>,
          has_total |-> FALSE, totalCount |-> 0]
    ELSE IF s.fail_at = n
    THEN [kind |-> "body", has_results |-> FALSE, results |-> <<>>,
          has_total |-> (s.total # "absent"), totalCount |-> ReportedTotal(s)]
    ELSE [kind |-> "body", has_results |-> TRUE, results |-> PageItems(s.K, P, n),
          has_total |-> (s.total # "absent"), totalCount |-> ReportedTotal(s)]

\* Line 119: not data or "results" not in data
NoData(data) == data.kind = "None" \/ ~data.has_results

\* Line 124: data.get("totalCount", 0)
TotalCountOfAnyway(data) == data.totalCount

TotalCountOf(data) == IF data.has_total THEN data.totalCount ELSE 0

\* Lines 122-126: the walker stops after this page.
StopAfterPageNoTotal(res, data, P) ==
    \/ data.results = <<>>
    \/ Len(data.results) < P

StopAfterPage(res, data, P) ==
    \/ data.results = <<>>
    \/ Len(res) >= TotalCountOf(data)
    \/ Len(data.results) < P

\* Lines 119-120 and 129: on a page without data the loop breaks and the
\* accumulated results are returned.
OnNoDataEmpty(res) == <<>>

OnNoData(res) == res

IdleApiGetAll ==
    /\ items_per_page = 1
    /\ srv = [K |-> 0, total |-> "exact", fail_at |-> 0, fail_kind |-> "None"]
    /\ page = 1
    /\ results = <<>>
    /\ reqlog = <<>>
    /\ noData = 0
    /\ apc = "idle"

\* Line 113: results, page = [], 1
InitApiGetAll ==
    /\ items_per_page \in 1..MaxPageSize
    /\ srv \in Servers
    /\ page = 1
    /\ results = <<>>
    /\ reqlog = <<>>
    /\ noData = 0
    /\ apc = "loop"

\* Lines 115-128: one iteration of the while loop.
ApiGetAllPage ==
    /\ apc = "loop"
    /\ reqlog' = Append(reqlog, [pageNum |-> page, itemsPerPage |-> items_per_page])
    /\ LET data == ApiGetPage(srv, items_per_page, page) IN
       IF NoData(data)
       THEN /\ noData' = page
            /\ results' = OnNoData(results)
            /\ apc' = "returned"
            /\ UNCHANGED page
       ELSE /\ results' = results \o data.results
            /\ UNCHANGED noData
            /\ IF StopAfterPage(results', data, items_per_page)
               THEN apc' = "returned" /\ UNCHANGED page
               ELSE apc' = "loop" /\ page' = page + 1
    /\ UNCHANGED <<items_per_page, srv>>
    /\ UNCHANGED <<getVars, filterVars, mainVars, tierVars, reportVars>>

NextApiGetAll == ApiGetAllPage

\* ------------------------------------------------------------------------
\* filter_projects (src/get_cluster_report.py:132-150)
\* ------------------------------------------------------------------------
\* Names and patterns are sequences of characters.  "A" is the upper-case
\* form of "a"; "*" and "?" are the glob wildcards.
NameChars == {"a", "A", "b"}

\* str.lower(), one character.
LowerChar(c) == IF c = "A" THEN "a" ELSE c

\* str.lower()
Lower(s) == [i \in 1..Len(s) |-> LowerChar(s[i])]

\* fnmatch.fnmatch(name, pat) on a POSIX system (os.path.normcase is the
\* identity there): "*" matches any run of characters, "?" any one
\* character, every other character itself.
RECURSIVE FnMatch(_, _)
FnMatch(name, pat) ==
    IF pat = <<>> THEN name = <<>>
    ELSE IF Head(pat) = "*"
    THEN FnMatch(name, Tail(pat)) \/ (name # <<>> /\ FnMatch(Tail(name), pat))
    ELSE /\ name # <<>>
         /\ (Head(pat) = "?" \/ Head(pat) = Head(name))
         /\ FnMatch(Tail(name), Tail(pat))

\* Lines 136-137: match(name, patterns)
Match(name, patterns) ==
    \E p \in patterns : FnMatch(Lower(name), Lower(p))

\* p.get("name", "")
NameOf(p) == IF p.has_name THEN p.name ELSE <<>>

\* Lines 142-149: the condition of the list comprehension.
KeepProjectIncludeWins(p, inc, exc) ==
    \/ (inc # {} /\ Match(NameOf(p), inc))
    \/ (inc = {} /\ ~(exc # {} /\ Match(NameOf(p), exc)))

KeepProject(p, inc, exc) ==
    /\ (inc = {} \/ Match(NameOf(p), inc))
    /\ ~(exc # {} /\ Match(NameOf(p), exc))

\* Lines 132-150.  The pattern lists are sets here: match() asks only whether
\* any pattern of the list matches.
filter_projects(ps, inc, exc) ==
    IF inc = {} /\ exc = {} THEN ps
    ELSE SelectSeq(ps, LAMBDA p : KeepProject(p, inc, exc))

\* The tenants the model draws: upper and lower case names, and one without a
\* "name" key.
Tenants ==
    { [id |-> 1, has_name |-> TRUE, name |-> <<"a", "b">>],
      [id |-> 2, has_name |-> TRUE, name |-> <<"A">>],
      [id |-> 3, has_name |-> TRUE, name |-> <<"b">>],
      [id |-> 4, has_name |-> FALSE, name |-> <<>>] }

\* The patterns the model draws.
Patterns ==
    { <<"a", "*">>, <<"A", "?">>, <<"*", "b">>, <<"?">>, <<"*">> }

PatternLists == {S \in SUBSET Patterns : Cardinality(S) <= MaxPatterns}

IdleFilter ==
    /\ fprojects = <<>>
    /\ finclude = {}
    /\ fexclude = {}
    /\ fresult = <<>>
    /\ fpc = "idle"

InitFilter ==
    /\ fprojects \in SeqsUpTo(Tenants, MaxProjects)
    /\ finclude \in PatternLists
    /\ fexclude \in PatternLists
    /\ fresult = <<>>
    /\ fpc = "call"

FilterProjects ==
    /\ fpc = "call"
    /\ fresult' = filter_projects(fprojects, finclude, fexclude)
    /\ fpc' = "done"
    /\ UNCHANGED <<fprojects, finclude, fexclude>>
    /\ UNCHANGED <<getVars, allVars, mainVars, tierVars, reportVars>>

NextFilter == FilterProjects

\* ------------------------------------------------------------------------
\* get_session (src/get_cluster_report.py:59-71)
\* ------------------------------------------------------------------------
\* Thread 0 is the main thread, 1..MaxWorkers the executor's worker threads.
\* A thread inside get_session takes its statements one at a time, so that
\* other threads run between them.
Threads == 0..MaxWorkers

NewClient == [auth |-> FALSE, mounted |-> FALSE]

\* Line 64: _session is None
SessionIsNoneAlways(s) == TRUE

SessionIsNone(s) == s = 0

\* Line 64: the test.
GsCheck(t) ==
    /\ tpc[t] = "gs_check"
    /\ tpc' = [tpc EXCEPT ![t] = IF SessionIsNone(session) THEN "gs_create" ELSE "gs_return"]
    /\ UNCHANGED <<session, clients, handed, touched>>

\* Line 65: _session = requests.Session()
GsCreate(t) ==
    /\ tpc[t] = "gs_create"
    /\ clients' = Append(clients, NewClient)
    /\ session' = Len(clients) + 1
    /\ tpc' = [tpc EXCEPT ![t] = "gs_auth"]
    /\ UNCHANGED <<handed, touched>>

\* Line 66: _session.auth = HTTPDigestAuth(...), on the client the global names now.
GsAuth(t) ==
    /\ tpc[t] = "gs_auth"
    /\ clients' = [clients EXCEPT ![session].auth = TRUE]
    /\ touched' = (touched \/ \E h \in handed : h.client = session)
    /\ tpc' = [tpc EXCEPT ![t] = "gs_mount"]
    /\ UNCHANGED <<session, handed>>

\* Lines 67-70: _session.mount("https://", HTTPAdapter(...))
GsMount(t) ==
    /\ tpc[t] = "gs_mount"
    /\ clients' = [clients EXCEPT ![session].mounted = TRUE]
    /\ touched' = (touched \/ \E h \in handed : h.client = session)
    /\ tpc' = [tpc EXCEPT ![t] = "gs_return"]
    /\ UNCHANGED <<session, handed>>

\* Line 71: return _session; the caller goes on to issue its request with it.
GsReturn(t) ==
    /\ tpc[t] = "gs_return"
    /\ handed' = handed \cup
         {[client |-> session, auth |-> clients[session].auth,
           mounted |-> clients[session].mounted]}
    /\ tpc' = [tpc EXCEPT ![t] = "request"]
    /\ UNCHANGED <<session, clients, touched>>

GetSessionStep(t) ==
    /\ \/ GsCheck(t)
       \/ GsCreate(t)
       \/ GsAuth(t)
       \/ GsMount(t)
       \/ GsReturn(t)
    /\ UNCHANGED <<mpc, exit_reason, max_workers, creds, include_projects,
                   exclude_projects, fetched, projects, filter_ran, pool_size,
                   queue, task, fut, collected, reports, api_requests, emitted>>
    /\ UNCHANGED <<getVars, allVars, filterVars, tierVars, reportVars>>

\* ------------------------------------------------------------------------
\* main (src/get_cluster_report.py:436-537)
\* ------------------------------------------------------------------------
\* The tenant listings api_get_all("/groups") may return: up to MaxTenants of
\* the tenants, each at most once, in the order of their ids.
TenantLists ==
    {ps \in SeqsUpTo(Tenants, MaxTenants) :
        \A i \in 1..Len(ps), j \in 1..Len(ps) : i < j => ps[i].id < ps[j].id}

\* The patterns --project and --exclude-project are given in main's runs.
MainIncludes == {{}, {<<"a", "*">>}}

MainExcludes == {{}, {<<"*">>}, {<<"?">>}}

\* What the cluster listing of a tenant holds (tenant 2 has no clusters).
ClustersOf(p) == IF p.id = 2 THEN <<>> ELSE <<p.id>>

\* Lines 254-260: validate_args accepts --max-workers.
MaxWorkersValid(n) == n >= 1

\* Line 462: not ATLAS_PUBLIC_KEY or not ATLAS_PRIVATE_KEY
CredentialsMissingNever(c) == FALSE

CredentialsMissing(c) == c = "missing"

\* Lines 470 and 475: not projects
NoProjects(ps) == ps = <<>>

\* Line 486: the executor's max_workers.
PoolSizeNoMin(mw, n) == mw

PoolSize(mw, n) == Min(mw, n)

\* Lines 501-502: a future that raised is logged; reports is left as it is.
CollectRaisedAsEmpty(reps, p) ==
    Append(reps, [project_name |-> NameOf(p), clusters |-> <<>>])

CollectRaised(reps, p) == reps

\* Lines 490-493 and 500: the task's result is appended.
CollectResult(reps, p) ==
    Append(reps, [project_name |-> p.name, clusters |-> ClustersOf(p)])

IdleMain ==
    /\ mpc = "idle"
    /\ exit_reason = ""
    /\ max_workers = 0
    /\ creds = "unread"
    /\ include_projects = {}
    /\ exclude_projects = {}
    /\ fetched = <<>>
    /\ projects = <<>>
    /\ filter_ran = FALSE
    /\ session = 0
    /\ clients = <<>>
    /\ handed = {}
    /\ touched = FALSE
    /\ tpc = [t \in Threads |-> "idle"]
    /\ pool_size = 0
    /\ queue = <<>>
    /\ task = [t \in Threads |-> 0]
    /\ fut = <<>>
    /\ collected = {}
    /\ reports = <<>>
    /\ api_requests = 0
    /\ emitted = {}

\* The process as main() is entered: _session is None (line 59).
InitMain ==
    /\ mpc = "validate"
    /\ exit_reason = ""
    /\ max_workers = 0
    /\ creds = "unread"
    /\ include_projects = {}
    /\ exclude_projects = {}
    /\ fetched = <<>>
    /\ projects = <<>>
    /\ filter_ran = FALSE
    /\ session = 0
    /\ clients = <<>>
    /\ handed = {}
    /\ touched = FALSE
    /\ tpc = [t \in Threads |-> "idle"]
    /\ pool_size = 0
    /\ queue = <<>>
    /\ task = [t \in Threads |-> 0]
    /\ fut = <<>>
    /\ collected = {}
    /\ reports = <<>>
    /\ api_requests = 0
    /\ emitted = {}

sessionVars == <<session, clients, handed, touched>>

poolVars == <<pool_size, queue, task, fut, collected, reports>>

\* Lines 439-458: parse_args, validate_args (its --max-workers check), and the
\* arguments applied to config.
ValidateArgs ==
    /\ mpc = "validate"
    /\ \E mw \in 0..MaxWorkers, inc \in MainIncludes, exc \in MainExcludes :
        /\ max_workers' = mw
        /\ IF MaxWorkersValid(mw)
           THEN /\ include_projects' = inc
                /\ exclude_projects' = exc
                /\ mpc' = "creds"
                /\ UNCHANGED exit_reason
           ELSE /\ mpc' = "exit1"
                /\ exit_reason' = "args"
                /\ UNCHANGED <<include_projects, exclude_projects>>
    /\ UNCHANGED <<creds, fetched, projects, filter_ran, tpc, api_requests, emitted>>
    /\ UNCHANGED <<sessionVars, poolVars>>
    /\ UNCHANGED <<getVars, allVars, filterVars, tierVars, reportVars>>

\* Lines 462-464: the credentials check.
CheckCredentials ==
    /\ mpc = "creds"
    /\ \E c \in {"set", "missing"} :
        /\ creds' = c
        /\ IF CredentialsMissing(c)
           THEN /\ mpc' = "exit1"
                /\ exit_reason' = "credentials"
                /\ UNCHANGED tpc
           ELSE /\ mpc' = "fetch"
                /\ tpc' = [tpc EXCEPT ![0] = "gs_check"]
                /\ UNCHANGED exit_reason
    /\ UNCHANGED <<max_workers, include_projects, exclude_projects, fetched,
                   projects, filter_ran, api_requests, emitted>>
    /\ UNCHANGED <<sessionVars, poolVars>>
    /\ UNCHANGED <<getVars, allVars, filterVars, tierVars, reportVars>>

\* Line 469: projects = api_get_all("/groups"), once the main thread has the
\* client from get_session: the request is issued and the listing returned.
FetchProjects ==
    /\ mpc = "fetch"
    /\ tpc[0] = "request"
    /\ \E ps \in TenantLists :
        /\ fetched' = ps
        /\ projects' = ps
    /\ api_requests' = api_requests + 1
    /\ tpc' = [tpc EXCEPT ![0] = "idle"]
    /\ mpc' = "check_projects"
    /\ UNCHANGED <<exit_reason, max_workers, creds, include_projects,
                   exclude_projects, filter_ran, emitted>>
    /\ UNCHANGED <<sessionVars, poolVars>>
    /\ UNCHANGED <<getVars, allVars, filterVars, tierVars, reportVars>>

\* Lines 470-472.
CheckProjects ==
    /\ mpc = "check_projects"
    /\ IF NoProjects(projects)
       THEN mpc' = "exit1" /\ exit_reason' = "no_projects"
       ELSE mpc' = "filter" /\ UNCHANGED exit_reason
    /\ UNCHANGED <<max_workers, creds, include_projects, exclude_projects,
                   fetched, projects, filter_ran, tpc, api_requests, emitted>>
    /\ UNCHANGED <<sessionVars, poolVars>>
    /\ UNCHANGED <<getVars, allVars, filterVars, tierVars, reportVars>>

\* Lines 474-477.
FilterAndCheck ==
    /\ mpc = "filter"
    /\ projects' = filter_projects(projects, include_projects, exclude_projects)
    /\ filter_ran' = TRUE
    /\ IF NoProjects(projects')
       THEN mpc' = "exit1" /\ exit_reason' = "no_match"
       ELSE mpc' = "pool" /\ UNCHANGED exit_reason
    /\ UNCHANGED <<max_workers, creds, include_projects, exclude_projects,
                   fetched, tpc, api_requests, emitted>>
    /\ UNCHANGED <<sessionVars, poolVars>>
    /\ UNCHANGED <<getVars, allVars, filterVars, tierVars, reportVars>>

\* Lines 484-487: reports = [] and the executor is constructed.
CreatePool ==
    /\ mpc = "pool"
    /\ pool_size' = PoolSize(max_workers, Len(projects))
    /\ reports' = <<>>
    /\ mpc' = "submit"
    /\ UNCHANGED <<exit_reason, max_workers, creds, include_projects,
                   exclude_projects, fetched, projects, filter_ran, tpc,
                   queue, task, fut, collected, api_requests, emitted>>
    /\ UNCHANGED sessionVars
    /\ UNCHANGED <<getVars, allVars, filterVars, tierVars, reportVars>>

\* Lines 488-497: one ex.submit, in the order of projects; after the last the
\* main thread enters as_completed.
Submit ==
    /\ mpc = "submit"
    /\ IF Len(fut) < Len(projects)
       THEN /\ fut' = Append(fut, "pending")
            /\ queue' = Append(queue, Len(fut) + 1)
            /\ UNCHANGED mpc
       ELSE /\ mpc' = "collect"
            /\ UNCHANGED <<fut, queue>>
    /\ UNCHANGED <<exit_reason, max_workers, creds, include_projects,
                   exclude_projects, fetched, projects, filter_ran, tpc,
                   pool_size, task, collected, reports, api_requests, emitted>>
    /\ UNCHANGED sessionVars
    /\ UNCHANGED <<getVars, allVars, filterVars, tierVars, reportVars>>

workerFrame ==
    <<mpc, exit_reason, max_workers, creds, include_projects, exclude_projects,
      fetched, projects, filter_ran, pool_size, collected, reports, emitted>>

\* ThreadPoolExecutor: an idle worker of the pool takes the oldest queued task.
WorkerTake(w) ==
    /\ w \in 1..pool_size
    /\ tpc[w] = "idle"
    /\ queue # <<>>
    /\ task' = [task EXCEPT ![w] = Head(queue)]
    /\ queue' = Tail(queue)
    /\ fut' = [fut EXCEPT ![Head(queue)] = "running"]
    /\ tpc' = [tpc EXCEPT ![w] = "start"]
    /\ UNCHANGED <<workerFrame, api_requests>>
    /\ UNCHANGED sessionVars
    /\ UNCHANGED <<getVars, allVars, filterVars, tierVars, reportVars>>

\* Lines 490-493: the task evaluates p["name"], which raises KeyError for a
\* tenant without a "name" key, and then calls api_get_all, which calls
\* get_session.
WorkerStart(w) ==
    /\ w \in 1..pool_size
    /\ tpc[w] = "start"
    /\ IF projects[task[w]].has_name
       THEN /\ tpc' = [tpc EXCEPT ![w] = "gs_check"]
            /\ UNCHANGED <<fut, task>>
       ELSE /\ fut' = [fut EXCEPT ![task[w]] = "raised"]
            /\ task' = [task EXCEPT ![w] = 0]
            /\ tpc' = [tpc EXCEPT ![w] = "idle"]
    /\ UNCHANGED <<workerFrame, queue, api_requests>>
    /\ UNCHANGED sessionVars
    /\ UNCHANGED <<getVars, allVars, filterVars, tierVars, reportVars>>

\* Line 492: the cluster listing is requested with the client get_session
\* returned; the fetch returns the tenant's clusters, or raises.
WorkerRequest(w) ==
    /\ w \in 1..pool_size
    /\ tpc[w] = "request"
    /\ api_requests' = api_requests + 1
    /\ \E outcome \in {"done", "raised"} :
        fut' = [fut EXCEPT ![task[w]] = outcome]
    /\ task' = [task EXCEPT ![w] = 0]
    /\ tpc' = [tpc EXCEPT ![w] = "idle"]
    /\ UNCHANGED <<workerFrame, queue>>
    /\ UNCHANGED sessionVars
    /\ UNCHANGED <<getVars, allVars, filterVars, tierVars, reportVars>>

\* Lines 498-502: as_completed yields a finished future not yet yielded.
Collect ==
    /\ mpc = "collect"
    /\ \E i \in 1..Len(fut) :
        /\ i \notin collected
        /\ fut[i] \in {"done", "raised"}
        /\ collected' = collected \cup {i}
        /\ reports' = IF fut[i] = "done"
                      THEN CollectResult(reports, projects[i])
                      ELSE CollectRaised(reports, projects[i])
    /\ UNCHANGED <<mpc, exit_reason, max_workers, creds, include_projects,
                   exclude_projects, fetched, projects, filter_ran, tpc,
                   pool_size, queue, task, fut, api_requests, emitted>>
    /\ UNCHANGED sessionVars
    /\ UNCHANGED <<getVars, allVars, filterVars, tierVars, reportVars>>

\* Lines 498-503: as_completed has yielded every future; the with block ends.
ExitPool ==
    /\ mpc = "collect"
    /\ collected = 1..Len(fut)
    /\ mpc' = "output"
    /\ UNCHANGED <<exit_reason, max_workers, creds, include_projects,
                   exclude_projects, fetched, projects, filter_ran, tpc,
                   api_requests, emitted>>
    /\ UNCHANGED <<sessionVars, poolVars>>
    /\ UNCHANGED <<getVars, allVars, filterVars, tierVars, reportVars>>

outputFrame ==
    <<max_workers, creds, include_projects, exclude_projects, fetched,
      projects, filter_ran, tpc, api_requests>>

\* Lines 507-511: --output-format json without --output.
JsonStdout ==
    /\ mpc = "output"
    /\ emitted' = emitted \cup {"json"}
    /\ mpc' = "done"
    /\ UNCHANGED <<exit_reason, outputFrame>>
    /\ UNCHANGED <<sessionVars, poolVars>>
    /\ UNCHANGED <<getVars, allVars, filterVars, tierVars, reportVars>>

\* Line 513: print_report(reports).  Every report yields at least one row
\* (lines 357-379); with no rows, line 402 calls max() with the one argument
\* len(h), an int, and max raises TypeError, which nothing handles.
PrintReport ==
    /\ mpc = "output"
    /\ IF reports = <<>>
       THEN mpc' = "crashed" /\ UNCHANGED emitted
       ELSE mpc' = "summary" /\ emitted' = emitted \cup {"table"}
    /\ UNCHANGED <<exit_reason, outputFrame>>
    /\ UNCHANGED <<sessionVars, poolVars>>
    /\ UNCHANGED <<getVars, allVars, filterVars, tierVars, reportVars>>

\* Lines 514-517: print_summary(reports), then --output decides.
PrintSummary ==
    /\ mpc = "summary"
    /\ emitted' = emitted \cup {"summary"}
    /\ \E output \in BOOLEAN : mpc' = IF output THEN "export" ELSE "done"
    /\ UNCHANGED <<exit_reason, outputFrame>>
    /\ UNCHANGED <<sessionVars, poolVars>>
    /\ UNCHANGED <<getVars, allVars, filterVars, tierVars, reportVars>>

\* Lines 517-525: infer_format raises ValueError for an unknown suffix without
\* --output-format, and main exits with 1; else export_report writes the file.
Export ==
    /\ mpc = "export"
    /\ \E format_known \in BOOLEAN :
        IF format_known
        THEN /\ emitted' = emitted \cup {"export"}
             /\ mpc' = "done"
             /\ UNCHANGED exit_reason
        ELSE /\ mpc' = "exit1"
             /\ exit_reason' = "output"
             /\ UNCHANGED emitted
    /\ UNCHANGED outputFrame
    /\ UNCHANGED <<sessionVars, poolVars>>
    /\ UNCHANGED <<getVars, allVars, filterVars, tierVars, reportVars>>

NextMain ==
    \/ ValidateArgs
    \/ CheckCredentials
    \/ \E t \in Threads : GetSessionStep(t)
    \/ FetchProjects
    \/ CheckProjects
    \/ FilterAndCheck
    \/ CreatePool
    \/ Submit
    \/ \E w \in Threads : WorkerTake(w)
    \/ \E w \in Threads : WorkerStart(w)
    \/ \E w \in Threads : WorkerRequest(w)
    \/ Collect
    \/ ExitPool
    \/ JsonStdout
    \/ PrintReport
    \/ PrintSummary
    \/ Export


\* ------------------------------------------------------------------------
\* is_large_tier (lines 159-161)
\* ------------------------------------------------------------------------
\* The decimal digits, in order of value.
Digits == <<"0", "1", "2", "3", "4", "5", "6", "7", "8", "9">>

DigitSet == {Digits[i] : i \in 1..Len(Digits)}

DigitOf(c) == (CHOOSE i \in 1..Len(Digits) : Digits[i] = c) - 1

\* int(s) for a string of decimal digits.
RECURSIVE IntOfDigits(_)
IntOfDigits(s) ==
    IF s = <<>> THEN 0
    ELSE 10 * IntOfDigits(SubSeq(s, 1, Len(s) - 1)) + DigitOf(s[Len(s)])

\* f"{n}" for an integer n >= 0.
RECURSIVE FormatNat(_)
FormatNat(n) ==
    IF n < 10 THEN <<Digits[n + 1]>>
    ELSE Append(FormatNat(n \div 10), Digits[(n % 10) + 1])

\* The end of the longest run of digits of s that starts at position i
\* (i - 1 when s[i] is no digit): \d+ is greedy.
RECURSIVE DigitRunEnd(_, _)
DigitRunEnd(s, i) ==
    IF i <= Len(s) /\ s[i] \in DigitSet THEN DigitRunEnd(s, i + 1) ELSE i - 1

\* re.match(r"M(\d+)", s): the match is anchored at the start of s only;
\* the result is group(1), or NoMatch when re.match returns None (group(1)
\* holds at least one digit, so the empty string is free to stand for it).
NoMatch == <<>>

ReMatchM(s) ==
    IF Len(s) >= 2 /\ s[1] = "M" /\ s[2] \in DigitSet
    THEN SubSeq(s, 2, DigitRunEnd(s, 2))
    ELSE NoMatch

\* Line 161, the comparison.
ExceedsOrEquals(n, threshold) == n >= threshold

Exceeds(n, threshold) == n > threshold

\* Lines 160-161.
is_large_tier(t, threshold) ==
    LET m == ReMatchM(t)
    IN  m # NoMatch /\ Exceeds(IntOfDigits(m), threshold)

\* The tier strings is_large_tier is called with.  get_tier (lines 153-156)
\* yields "Serverless", "N/A" or the instance size name of the API.
MTiers == {<<"M">> \o FormatNat(n) : n \in 0..MaxTierNum}

RTiers == {<<"R">> \o FormatNat(n) : n \in 0..MaxTierNum}

OtherTiers ==
    { <<"S", "e", "r", "v", "e", "r", "l", "e", "s", "s">>,
      <<"N", "/", "A">>,
      <<>>,
      <<"M">>,
      <<"m", "1", "0">>,
      <<"M", "x", "9">>,
      <<"1", "0">>,
      <<"M", "0", "7">>,
      <<"M", "4", "_", "N", "V", "M", "E">> }

TierStrings == MTiers \cup RTiers \cup OtherTiers

\* Line 33: the default of Config.highlight_threshold.
DefaultThreshold == 30

IdleTier ==
    /\ tier_arg = <<>>
    /\ highlight_threshold = DefaultThreshold
    /\ is_large = "unset"
    /\ lpc = "idle"

InitTier ==
    /\ tier_arg \in TierStrings
    /\ highlight_threshold \in 0..MaxThreshold
    /\ is_large = "unset"
    /\ lpc = "call"

IsLargeTier ==
    /\ lpc = "call"
    /\ is_large' = is_large_tier(tier_arg, highlight_threshold)
    /\ lpc' = "done"
    /\ UNCHANGED <<tier_arg, highlight_threshold>>
    /\ UNCHANGED <<getVars, allVars, filterVars, mainVars, reportVars>>

NextTier == IsLargeTier

\* ------------------------------------------------------------------------
\* print_report (lines 342-414) and export_report (lines 278-339)
\* ------------------------------------------------------------------------
\* The characters of the strings below, in the order of their code points
\* (the order str comparison uses).
Ascii ==
    << " ", ".", "/", "0", "1", "2", "3", "4", "5", "6", "7", "8", "9",
       "A", "B", "C", "D", "E", "F", "G", "H", "I", "J", "K", "L", "M",
       "N", "O", "P", "Q", "R", "S", "T", "U", "V", "W", "X", "Y", "Z", "_",
       "a", "b", "c", "d", "e", "f", "g", "h", "i", "j", "k", "l", "m",
       "n", "o", "p", "q", "r", "s", "t", "u", "v", "w", "x", "y", "z" >>

Ord(c) == CHOOSE i \in 1..Len(Ascii) : Ascii[i] = c

\* str.lower() on these characters, one character and a string.
AsciiLower(c) ==
    IF Ord("A") <= Ord(c) /\ Ord(c) <= Ord("Z")
    THEN Ascii[Ord(c) + (Ord("a") - Ord("A"))]
    ELSE c

str_lower(s) == [i \in 1..Len(s) |-> AsciiLower(s[i])]

\* a < b for two str: lexicographic by code point, a proper prefix first.
StrLess(a, b) ==
    \E k \in 0..Min(Len(a), Len(b)) :
        /\ \A i \in 1..k : a[i] = b[i]
        /\ k < Len(b)
        /\ (k < Len(a) => Ord(a[k + 1]) < Ord(b[k + 1]))

Reverse(seq) == [i \in 1..Len(seq) |-> seq[Len(seq) + 1 - i]]

\* Tenant names, and the cluster documents of the API.  diskSizeGB is held in
\* hundredths of a GB; has_ps and has_disk tell whether the document has
\* the keys providerSettings and diskSizeGB; the other keys are present.
Names == {<<"a">>, <<"B">>}

Clusters ==
    { [name |-> <<"x">>, clusterType |-> <<"R", "E", "P", "L", "I", "C", "A", "S", "E", "T">>, has_ps |-> TRUE,
       instanceSizeName |-> <<"M", "4", "0">>,
       providerName |-> <<"A", "W", "S">>, regionName |-> <<"E", "U">>,
       mongoDBMajorVersion |-> <<"7", ".", "0">>, stateName |-> <<"I", "D", "L", "E">>,
       pitEnabled |-> TRUE, has_disk |-> TRUE, diskSizeGB |-> 1001],
      [name |-> <<"X">>, clusterType |-> <<"R", "E", "P", "L", "I", "C", "A", "S", "E", "T">>, has_ps |-> TRUE,
       instanceSizeName |-> <<"M", "5">>,
       providerName |-> <<"a", "w", "s">>, regionName |-> <<"u", "s">>,
       mongoDBMajorVersion |-> <<"6", ".", "0">>, stateName |-> <<"I", "D", "L", "E">>,
       pitEnabled |-> FALSE, has_disk |-> TRUE, diskSizeGB |-> 1004],
      [name |-> <<"y">>, clusterType |-> <<"S", "E", "R", "V", "E", "R", "L", "E", "S", "S">>,
       has_ps |-> FALSE, instanceSizeName |-> <<>>,
       providerName |-> <<>>, regionName |-> <<>>,
       mongoDBMajorVersion |-> <<"7", ".", "0">>, stateName |-> <<"I", "D", "L", "E">>,
       pitEnabled |-> FALSE, has_disk |-> FALSE, diskSizeGB |-> 0] }

NA == <<"N", "/", "A">>

\* Lines 153-156.
get_tier(c) ==
    IF c.clusterType = <<"S", "E", "R", "V", "E", "R", "L", "E", "S", "S">>
    THEN <<"S", "e", "r", "v", "e", "r", "l", "e", "s", "s">>
    ELSE IF c.has_ps THEN c.instanceSizeName ELSE NA

\* ps.get("providerName", "N/A"), ps.get("regionName", "N/A") with
\* ps = c.get("providerSettings", {})
ProviderOf(c) == IF c.has_ps THEN c.providerName ELSE NA

RegionOf(c) == IF c.has_ps THEN c.regionName ELSE NA

\* c.get("diskSizeGB", 0.0), in hundredths
DiskOf(c) == IF c.has_disk THEN c.diskSizeGB ELSE 0

PitOf(c) == IF c.pitEnabled THEN <<"Y", "e", "s">> ELSE <<"N", "o">>

\* f"{d:.1f}" for d = h / 100: rounded to one decimal.  (h + 5) \div 10 is
\* the rounding for every h whose last digit is not 5; the cluster documents
\* above hold no such value.
Format1f(h) ==
    LET tenths == (h + 5) \div 10
    IN  FormatNat(tenths \div 10) \o <<".">> \o <<Digits[(tenths % 10) + 1]>>

\* str(d) for the float d = h / 100: the shortest decimal that reads back,
\* with at least one decimal.
StrOfFloat(h) ==
    FormatNat(h \div 100) \o <<".">>
    \o (IF h % 10 = 0 THEN <<Digits[((h % 100) \div 10) + 1]>>
        ELSE <<Digits[((h % 100) \div 10) + 1], Digits[(h % 10) + 1]>>)

\* float(s) for a string with one decimal, in tenths.
FloatOf(s) ==
    LET dot == CHOOSE i \in 1..Len(s) : s[i] = "."
    IN  10 * IntOfDigits(SubSeq(s, 1, dot - 1))
        + IntOfDigits(SubSeq(s, dot + 1, Len(s)))

\* sorted(reports, key=lambda x: x["project_name"]) (lines 281, 357): a
\* stable sort by the name, compared as str.
RECURSIVE InsertReport(_, _)
InsertReport(seq, r) ==
    IF seq = <<>> THEN <<r>>
    ELSE IF StrLess(r.project_name, Head(seq).project_name) THEN <<r>> \o seq
    ELSE <<Head(seq)>> \o InsertReport(Tail(seq), r)

RECURSIVE SortedReports(_)
SortedReports(reps) ==
    IF reps = <<>> THEN <<>>
    ELSE InsertReport(SortedReports(SubSeq(reps, 1, Len(reps) - 1)),
                      reps[Len(reps)])

\* Lines 356-379: the loops over the sorted reports and their clusters, as
\* the sequence of (tenant, cluster) pairs they visit; a tenant without
\* clusters is visited once, with empty set.
EntriesOf(r) ==
    IF r.clusters = <<>>
    THEN <<[project_name |-> r.project_name, empty |-> TRUE]>>
    ELSE [i \in 1..Len(r.clusters) |->
            [project_name |-> r.project_name, empty |-> FALSE,
             c |-> r.clusters[i]]]

RECURSIVE Flatten(_)
Flatten(reps) ==
    IF reps = <<>> THEN <<>>
    ELSE EntriesOf(Head(reps)) \o Flatten(Tail(reps))

\* Lines 358-379: the row of one pair, (values, highlighted).
NoClusters == <<"N", "o", " ", "c", "l", "u", "s", "t", "e", "r", "s">>

TableRowOf(e, threshold) ==
    IF e.empty
    THEN [vals |-> <<e.project_name, NoClusters>> \o [i \in 1..8 |-> <<>>],
          hl |-> FALSE]
    ELSE [vals |-> << e.project_name, e.c.name, get_tier(e.c), e.c.clusterType,
                      ProviderOf(e.c), RegionOf(e.c), e.c.mongoDBMajorVersion,
                      e.c.stateName, PitOf(e.c), Format1f(DiskOf(e.c)) >>,
          hl |-> is_large_tier(get_tier(e.c), threshold)]

TableRows(reps, threshold) ==
    LET es == Flatten(SortedReports(reps))
    IN  [i \in 1..Len(es) |-> TableRowOf(es[i], threshold)]

\* Lines 382-389: the column (counted from 0) of the sort key.
SortKeys == {"project", "cluster", "tier", "provider", "region", "disk"}

idx(sb) ==
    CASE sb = "project" -> 0
      [] sb = "cluster" -> 1
      [] sb = "tier" -> 2
      [] sb = "provider" -> 4
      [] sb = "region" -> 5
      [] sb = "disk" -> 9
      [] OTHER -> 0

\* Lines 391-398: skey(row); the float of the disk column in tenths.
skey(row, sb) ==
    LET v == row.vals[idx(sb) + 1]
    IN  IF idx(sb) = 9 THEN (IF v = <<>> THEN 0 ELSE FloatOf(v))
        ELSE IF idx(sb) = 2
        THEN (IF ReMatchM(v) # NoMatch THEN IntOfDigits(ReMatchM(v)) ELSE 0)
        ELSE str_lower(v)

\* skey(a) < skey(b): numbers for the disk and tier columns, str otherwise.
KeyLess(a, b, sb) ==
    IF idx(sb) \in {2, 9} THEN skey(a, sb) < skey(b, sb)
    ELSE StrLess(skey(a, sb), skey(b, sb))

\* list.sort(key=skey): stable, ascending.
RECURSIVE InsertRow(_, _, _)
InsertRow(seq, x, sb) ==
    IF seq = <<>> THEN <<x>>
    ELSE IF KeyLess(x, Head(seq), sb) THEN <<x>> \o seq
    ELSE <<Head(seq)>> \o InsertRow(Tail(seq), x, sb)

RECURSIVE StableSort(_, _)
StableSort(seq, sb) ==
    IF seq = <<>> THEN <<>>
    ELSE InsertRow(StableSort(SubSeq(seq, 1, Len(seq) - 1), sb),
                   seq[Len(seq)], sb)

\* Line 400: rows.sort(key=skey, reverse=(config.sort_by == "disk")).  With
\* reverse=True list.sort reverses the list, sorts it, and reverses the
\* result, which keeps rows of equal keys in their original order.
SortRows(rs, sb) ==
    IF sb = "disk" THEN Reverse(StableSort(Reverse(rs), sb))
    ELSE StableSort(rs, sb)

\* Lines 305-334: the CSV rows of one report.
CsvRowsOfNoPlaceholder(r, ts) ==
    [i \in 1..Len(r.clusters) |->
        [generated_at |-> ts, project_name |-> r.project_name,
         cluster_name |-> r.clusters[i].name, tier |-> get_tier(r.clusters[i]),
         cluster_type |-> r.clusters[i].clusterType,
         provider |-> ProviderOf(r.clusters[i]),
         region |-> RegionOf(r.clusters[i]),
         version |-> r.clusters[i].mongoDBMajorVersion,
         state |-> r.clusters[i].stateName, pit |-> PitOf(r.clusters[i]),
         disk_size_gb |-> StrOfFloat(DiskOf(r.clusters[i]))]]

CsvRowsOf(r, ts) ==
    IF r.clusters = <<>>
    THEN <<[generated_at |-> ts, project_name |-> r.project_name,
            cluster_name |-> <<>>, tier |-> <<>>, cluster_type |-> <<>>,
            provider |-> <<>>, region |-> <<>>, version |-> <<>>,
            state |-> <<>>, pit |-> <<>>, disk_size_gb |-> <<>>]>>
    ELSE CsvRowsOfNoPlaceholder(r, ts)

RECURSIVE CsvRows(_, _)
CsvRows(reps, ts) ==
    IF reps = <<>> THEN <<>>
    ELSE CsvRowsOf(Head(reps), ts) \o CsvRows(Tail(reps), ts)

\* Line 280: the clock readings datetime.now can give.
Timestamps == {"T1", "T2"}

\* The report lists that flatten to at most n rows.
ReportsOfRows(k) ==
    [project_name : Names,
     clusters : IF k = 1 THEN {<<>>} \cup [1..1 -> Clusters]
                ELSE [1..k -> Clusters]]

RECURSIVE ReportLists(_)
ReportLists(n) ==
    {<<>>} \cup
    UNION { {<<r>> \o l : r \in ReportsOfRows(k), l \in ReportLists(n - k)} :
            k \in 1..n }

IdleReport ==
    /\ rreports = <<>>
    /\ sort_by = "project"
    /\ rows = <<>>
    /\ ppc = "idle"
    /\ out_file = [fmt |-> "none"]
    /\ xpc = "idle"

InitReport ==
    /\ rreports \in ReportLists(MaxRows)
    /\ sort_by \in SortKeys
    /\ rows = <<>>
    /\ ppc = "call"
    /\ out_file = [fmt |-> "none"]
    /\ xpc = "call"

\* print_report(reports), up to the table it prints (lines 342-414).  With
\* no rows line 402 raises TypeError: max() is given one int.
PrintReportTable ==
    /\ ppc = "call"
    /\ LET rs == SortRows(TableRows(rreports, highlight_threshold), sort_by)
       IN  IF rs = <<>>
           THEN ppc' = "raised" /\ rows' = rows
           ELSE ppc' = "done" /\ rows' = rs
    /\ UNCHANGED <<rreports, sort_by, out_file, xpc>>
    /\ UNCHANGED <<getVars, allVars, filterVars, mainVars, tierVars>>

\* export_report(reports, path, fmt) (lines 278-339), called as main calls
\* it (lines 513-525): once print_report has returned.
ExportReport ==
    /\ ppc = "done"
    /\ xpc = "call"
    /\ \E fmt \in {"json", "csv"}, ts \in Timestamps :
         out_file' =
            IF fmt = "json"
            THEN [fmt |-> "json", generated_at |-> ts,
                  projects |-> SortedReports(rreports)]
            ELSE [fmt |-> "csv", rows |-> CsvRows(SortedReports(rreports), ts)]
    /\ xpc' = "done"
    /\ UNCHANGED <<rreports, sort_by, rows, ppc>>
    /\ UNCHANGED <<getVars, allVars, filterVars, mainVars, tierVars>>

NextReport == PrintReportTable \/ ExportReport

\* ------------------------------------------------------------------------
\* Specifications
\* ------------------------------------------------------------------------
InitSpecApiGet == InitApiGet /\ IdleApiGetAll /\ IdleFilter /\ IdleMain
    /\ IdleTier /\ IdleReport

SpecApiGet == InitSpecApiGet /\ [][NextApiGet]_vars

InitSpecApiGetAll == InitApiGetAll /\ IdleApiGet /\ IdleFilter /\ IdleMain
    /\ IdleTier /\ IdleReport

SpecApiGetAll == InitSpecApiGetAll /\ [][NextApiGetAll]_vars

InitSpecFilter == InitFilter /\ IdleApiGet /\ IdleApiGetAll /\ IdleMain
    /\ IdleTier /\ IdleReport

SpecFilter == InitSpecFilter /\ [][NextFilter]_vars

InitSpecMain == InitMain /\ IdleApiGet /\ IdleApiGetAll /\ IdleFilter
    /\ IdleTier /\ IdleReport

SpecMain == InitSpecMain /\ [][NextMain]_vars

InitSpecTier ==
    InitTier /\ IdleApiGet /\ IdleApiGetAll /\ IdleFilter /\ IdleMain
    /\ IdleReport

SpecTier == InitSpecTier /\ [][NextTier]_vars

InitSpecReport ==
    InitReport /\ IdleApiGet /\ IdleApiGetAll /\ IdleFilter /\ IdleMain
    /\ IdleTier

SpecReport == InitSpecReport /\ [][NextReport]_vars

\* ------------------------------------------------------------------------
\* Claims about api_get (under SpecApiGet)
\* ------------------------------------------------------------------------
\* The statuses the claims call retryable.
ClaimRetryable == {429, 500, 502, 503, 504}

LastOutcome == hist[Len(hist)]

\* The wait hint H of a failed attempt: the integer value of a present, numeric
\* Retry-After header of an HTTP error response, 0 otherwise.
HintOf(o) ==
    IF o.kind = "http" /\ IsDigit(o.retry_after) THEN IntOf(o.retry_after) ELSE 0

\* An attempt that failed with a retryable condition.
RetryableFailure(o) ==
    \/ o.kind = "conn"
    \/ o.kind = "http" /\ o.status \in ClaimRetryable

\* C1: when an attempt fails with an HTTP error response of status 429, 500,
\* 502, 503 or 504 and fewer than max_attempts attempts have been made,
\* api_get has slept and goes on to another request instead of returning; and
\* when an attempt succeeds, its decoded body is what api_get returns.
C1_RetriesRetryableStatus ==
    /\ (/\ hist # <<>>
        /\ LastOutcome.kind = "http"
        /\ LastOutcome.status \in ClaimRetryable
        /\ Len(hist) < max_attempts)
       => (gpc = "attempt" /\ Len(sleeps) = Len(hist))
    /\ (gpc = "returned" /\ LastOutcome.kind = "ok") => ret = LastOutcome.body

\* C2: the k-th failed attempt, when attempts are left, is followed by a sleep
\* of exactly max(2^(k-1), H) seconds, H being the failed response's numeric
\* Retry-After hint (0 without one, and for a connectivity failure); so a
\* rate-limited first response with hint W is followed by one sleep of
\* max(1, W) seconds, and with no hint by a sleep of 1 second.
C2_SleepIsMaxOfBackoffAndHint ==
    \A k \in 1..Len(hist) :
        (RetryableFailure(hist[k]) /\ k < max_attempts)
        => (/\ Len(sleeps) >= k
            /\ sleeps[k] = Max(Pow2(k - 1), HintOf(hist[k])))

\* C3: api_get never issues more than max_attempts requests; a non-retryable
\* HTTP error makes it return None at once, with no sleep after it; and when
\* every attempt failed with a retryable condition it returns None after
\* exactly max_attempts requests and max_attempts - 1 sleeps.
C3_BoundedAttemptsThenNone ==
    /\ Len(hist) <= max_attempts
    /\ (/\ hist # <<>>
        /\ LastOutcome.kind = "http"
        /\ LastOutcome.status \notin ClaimRetryable)
       => (gpc = "returned" /\ ret = None /\ Len(sleeps) = Len(hist) - 1)
    /\ (gpc = "returned" /\ \A k \in 1..Len(hist) : RetryableFailure(hist[k]))
       => (/\ ret = None
           /\ Len(hist) = max_attempts
           /\ Len(sleeps) = max_attempts - 1)

\* ------------------------------------------------------------------------
\* Claims about api_get_all (under SpecApiGetAll)
\* ------------------------------------------------------------------------
Ceil(a, b) == (a + b - 1) \div b

\* The walk is over, no page fetch yielded no data, and every body carried
\* totalCount = K.
WalkServedInFull == apc = "returned" /\ noData = 0 /\ srv.total = "exact"

\* Every request so far asked for the next page with the configured page size.
RequestsInPageOrder ==
    \A i \in 1..Len(reqlog) :
        reqlog[i] = [pageNum |-> i, itemsPerPage |-> items_per_page]

\* C4 (as stated): serving K items in pages of size P with totalCount = K and
\* no failing page, api_get_all returns exactly the K items in page order and
\* issues exactly ceil(K/P) page requests, pageNum = 1, 2, ... with
\* itemsPerPage = P on each.
C4_Original_CeilRequests ==
    WalkServedInFull
    => (/\ results = Range(1, srv.K)
        /\ Len(reqlog) = Ceil(srv.K, items_per_page)
        /\ RequestsInPageOrder)

\* C4 (amended): as above, with exactly max(1, ceil(K/P)) page requests: the
\* walker always requests page 1, also when K = 0.
C4_AllItemsInMaxOneCeilRequests ==
    WalkServedInFull
    => (/\ results = Range(1, srv.K)
        /\ Len(reqlog) = Max(1, Ceil(srv.K, items_per_page))
        /\ RequestsInPageOrder)

\* C4 witness: a walk over more than one page, the last one full, is over.
C4_Witness ==
    /\ WalkServedInFull
    /\ srv.K = 2 * items_per_page
    /\ Len(reqlog) = 2

\* C5: when the fetch of page n yields no data (api_get returned None, or a
\* body without "results"), api_get_all has stopped: it made no request after
\* that one and returns exactly the items of pages 1..n-1 in order (the empty
\* list when n = 1).
C5_NoDataTruncates ==
    noData > 0
    => (/\ apc = "returned"
        /\ Len(reqlog) = noData
        /\ RequestsInPageOrder
        /\ results = Range(1, (noData - 1) * items_per_page)
        /\ Len(results) <= srv.K)

\* C5 witness: a later page yielded no data after pages with items, and items
\* of the endpoint are missing from the result.
C5_Witness ==
    /\ apc = "returned"
    /\ noData > 1
    /\ results # <<>>
    /\ Len(results) < srv.K

\* ------------------------------------------------------------------------
\* Claims about filter_projects (under SpecFilter)
\* ------------------------------------------------------------------------
\* Glob matching stated without recursion: the pattern's characters split the
\* name into consecutive pieces, cut[j] being where the j-th piece ends; "*"
\* takes any piece, "?" a piece of one character, another character a piece of
\* that one character, compared without regard to case.
GlobMatchesIgnoringCase(name, pat) ==
    \E cut \in [0..Len(pat) -> 0..Len(name)] :
        /\ cut[0] = 0
        /\ cut[Len(pat)] = Len(name)
        /\ \A j \in 1..Len(pat) :
            IF pat[j] = "*" THEN cut[j] >= cut[j - 1]
            ELSE /\ cut[j] = cut[j - 1] + 1
                 /\ (pat[j] = "?" \/ LowerChar(pat[j]) = LowerChar(name[cut[j]]))

MatchesSome(p, patterns) ==
    \E pat \in patterns : GlobMatchesIgnoringCase(NameOf(p), pat)

\* The tenants the claim keeps.
ClaimKeeps(p) ==
    /\ (finclude # {} => MatchesSome(p, finclude))
    /\ ~MatchesSome(p, fexclude)

KeptIndices == {i \in 1..Len(fprojects) : ClaimKeeps(fprojects[i])}

\* The k-th smallest element of the set of indices I.
KthOf(I, k) == CHOOSE i \in I : Cardinality({j \in I : j <= i}) = k

\* C9: filter_projects returns, in input order, exactly the tenants whose name
\* matches (glob, ignoring case) at least one inclusion pattern when there is
\* one, and matches no exclusion pattern; without patterns it returns its
\* input; a tenant matching an inclusion and an exclusion pattern is removed.
C9_FilterKeepsIncludedNotExcluded ==
    fpc = "done"
    => (/\ Len(fresult) = Cardinality(KeptIndices)
        /\ \A k \in 1..Len(fresult) : fresult[k] = fprojects[KthOf(KeptIndices, k)]
        /\ (finclude = {} /\ fexclude = {}) => fresult = fprojects
        /\ \A i \in 1..Len(fprojects) :
            (MatchesSome(fprojects[i], finclude) /\ MatchesSome(fprojects[i], fexclude))
            => \A k \in 1..Len(fresult) : fresult[k] # fprojects[i])

\* C9 witness: with inclusion and exclusion patterns, a tenant matching both
\* (its upper-case name against a lower-case pattern) was removed and another
\* tenant kept.
C9_Witness ==
    /\ fpc = "done"
    /\ finclude = {<<"a", "*">>}
    /\ fexclude = {<<"?">>}
    /\ Len(fprojects) = 2
    /\ fprojects[1].name = <<"A">>
    /\ fresult = <<fprojects[2]>>

\* ------------------------------------------------------------------------
\* Claims about main and get_session (under SpecMain)
\* ------------------------------------------------------------------------
\* The with block of the fan-out is over.
CollectionOver ==
    \/ mpc \in {"output", "summary", "export", "done", "crashed"}
    \/ (mpc = "exit1" /\ exit_reason = "output")

RaisedTasks == {i \in 1..Len(fut) : fut[i] = "raised"}

ReportsNamed(name) == {k \in 1..Len(reports) : reports[k].project_name = name}

\* C6: under every interleaving and completion order of the workers, when
\* exactly one of the N filtered tenants' fetches raised, every other
\* tenant's fetch ran to completion and the collected reports are exactly
\* N-1: one for each tenant whose fetch did not raise, none for the one whose
\* fetch raised.
C6_OneFailureLeavesTheOthers ==
    (CollectionOver /\ Cardinality(RaisedTasks) = 1)
    => (/\ Len(fut) = Len(projects)
        /\ Len(reports) = Len(projects) - 1
        /\ \A i \in 1..Len(projects) :
            /\ fut[i] \in {"done", "raised"}
            /\ fut[i] = "done"
               => (/\ Cardinality(ReportsNamed(projects[i].name)) = 1
                   /\ \A k \in ReportsNamed(projects[i].name) :
                        reports[k].clusters = ClustersOf(projects[i]))
            /\ fut[i] = "raised" => ReportsNamed(NameOf(projects[i])) = {})

\* C6 witness: of three tenants fetched by two workers the first one's fetch
\* raised, and the reports were collected out of submission order.
C6_Witness ==
    /\ CollectionOver
    /\ Len(projects) = 3
    /\ pool_size = 2
    /\ RaisedTasks = {1}
    /\ Len(reports) = 2
    /\ reports[1].project_name = projects[3].name

\* C7: the shared client is created and configured once: at most one client
\* is ever created, every get_session call under every interleaving returned
\* that client with its credential set and its adapter mounted, and the
\* client was never configured again after get_session had returned it.
C7_OneConfiguredClient ==
    /\ Len(clients) <= 1
    /\ \A h \in handed : h.client = 1 /\ h.auth /\ h.mounted
    /\ ~touched

\* C7 witness: one worker has been handed the client and issues its request
\* while another worker is inside get_session.
C7_Witness ==
    /\ tpc[1] = "request"
    /\ tpc[2] \in {"gs_check", "gs_return"}
    /\ Cardinality(handed) = 1

PoolCreated == mpc \in {"submit", "collect"} \/ CollectionOver

RunningTasks == {i \in 1..Len(fut) : fut[i] = "running"}

\* C8: whenever the pool has been constructed its size is
\* min(config.max_workers, number of filtered tenants), at least 1 and at
\* most the number of tenants; and never are more tenant fetches in flight
\* than that size.
C8_PoolSizeBounded ==
    /\ PoolCreated
       => (/\ pool_size = IF max_workers <= Len(projects)
                          THEN max_workers ELSE Len(projects)
           /\ pool_size >= 1
           /\ pool_size <= Len(projects))
    /\ Cardinality(RunningTasks) <= pool_size

\* C8 witness: three tenants, a pool of two, both workers busy and a task
\* still waiting in the queue.
C8_Witness ==
    /\ Len(projects) = 3
    /\ pool_size = 2
    /\ Cardinality(RunningTasks) = 2
    /\ queue # <<>>

\* C10: main exits with a non-zero status and no output whenever the
\* credentials are missing (and then no request was issued and no client
\* created), whenever the tenant listing is empty (and then filter_projects
\* was not called and no cluster fetch submitted), and whenever the filter
\* leaves no tenant (and then no pool was created and no cluster fetch
\* submitted or requested).
C10_FatalExitsEmitNothing ==
    /\ creds = "missing" => exit_reason = "credentials"
    /\ exit_reason = "credentials"
       => (/\ mpc = "exit1"
           /\ emitted = {}
           /\ api_requests = 0
           /\ clients = <<>>)
    /\ (creds = "set" /\ fetched = <<>> /\ mpc \notin {"creds", "fetch", "check_projects"})
       => exit_reason = "no_projects"
    /\ exit_reason = "no_projects"
       => (/\ mpc = "exit1"
           /\ emitted = {}
           /\ ~filter_ran
           /\ pool_size = 0
           /\ fut = <<>>
           /\ api_requests = 1)
    /\ (filter_ran /\ projects = <<>>) => exit_reason = "no_match"
    /\ exit_reason = "no_match"
       => (/\ mpc = "exit1"
           /\ emitted = {}
           /\ pool_size = 0
           /\ fut = <<>>
           /\ api_requests = 1)

\* C10 witness: the listing returned tenants, the filter removed them all,
\* and main has exited.
C10_Witness ==
    /\ mpc = "exit1"
    /\ exit_reason = "no_match"
    /\ Len(fetched) >= 2
    /\ include_projects # {}
    /\ projects = <<>>

\* ------------------------------------------------------------------------
\* Further claims about main (under SpecMain)
\* ------------------------------------------------------------------------
\* C14: whatever the aggregation phase over a non-empty filtered tenant list
\* collected, also nothing at all because every fetch raised, the run is not
\* aborted: print_report and print_summary raise no unhandled exception.
C14_OutputNeverCrashes == mpc # "crashed"

\* ------------------------------------------------------------------------
\* Further claims about api_get_all (under SpecApiGetAll)
\* ------------------------------------------------------------------------
\* The page the walker is about to fetch, and the total its body reports
\* (0 when the body carries no totalCount).
PageNow == ApiGetPage(srv, items_per_page, page)

ClaimTotal == IF srv.total = "absent" THEN 0 ELSE ReportedTotal(srv)

\* C15, each step: on a page with data the walker goes on to the next page
\* exactly when the page is non-empty, its length equals the page size, and
\* the count accumulated with it is below the reported totalCount.
C15_StepContinuesExactlyWhen ==
    (apc = "loop" /\ ~NoData(PageNow))
    => ((apc' = "loop" /\ page' = page + 1)
        <=> (/\ PageNow.results # <<>>
             /\ Len(PageNow.results) = items_per_page
             /\ Len(results) + Len(PageNow.results) < ClaimTotal))

\* C15, the consequence: when the bodies carry no totalCount the walker stops
\* after the first page and returns only that page.
C15_NoTotalOnePage ==
    (apc = "returned" /\ srv.total = "absent" /\ noData = 0)
    => (Len(reqlog) = 1 /\ results = PageItems(srv.K, items_per_page, 1))

\* C15: both, along every run.
C15_ContinuesExactlyWhenFullAndBelowTotal ==
    [][C15_StepContinuesExactlyWhen]_vars /\ []C15_NoTotalOnePage

\* C15 witness: the bodies carry no totalCount, the first page was full, more
\* items exist, and the walker has returned the first page only.
C15_Witness ==
    /\ apc = "returned"
    /\ srv.total = "absent"
    /\ noData = 0
    /\ Len(results) = items_per_page
    /\ srv.K > items_per_page

\* ------------------------------------------------------------------------
\* Claims about is_large_tier (under SpecTier)
\* ------------------------------------------------------------------------
\* The strings "M{n}" of the claim.
ClaimMTier(n) == <<"M">> \o FormatNat(n)

\* A string that starts with "M" followed by a digit.
StartsWithMDigit(s) == Len(s) >= 2 /\ s[1] = "M" /\ s[2] \in DigitSet

\* C11: is_large_tier("M{n}") is true exactly when n exceeds the threshold
\* (false at n = threshold), and is_large_tier is false for every string that
\* does not start with "M" followed by a digit, whatever the threshold.
C11_LargeIffAboveThreshold ==
    lpc = "done"
    => /\ \A n \in 0..MaxTierNum :
            tier_arg = ClaimMTier(n)
            => (is_large = (n > highlight_threshold))
       /\ ~StartsWithMDigit(tier_arg) => (is_large = FALSE)

\* C11 witness: the boundary, is_large_tier("M{T}") has returned False with a
\* two-digit threshold T.
C11_Witness ==
    /\ lpc = "done"
    /\ highlight_threshold >= 10
    /\ tier_arg = ClaimMTier(highlight_threshold)
    /\ is_large = FALSE

\* ------------------------------------------------------------------------
\* Claims about print_report and export_report (under SpecReport)
\* ------------------------------------------------------------------------
\* The flattened (tenant, cluster) rows in their input order, and the
\* permutations of their positions.
InputEntries == Flatten(SortedReports(rreports))

Perms(n) == {p \in [1..n -> 1..n] : \A i, j \in 1..n : p[i] = p[j] => i = j}

\* The keys of the claim, for the pair e shown as the row TableRowOf(e, _):
\* the text of the column lowered, the number parsed from "M<digits>" (0
\* for any other tier), the disk size (in hundredths of a GB, 0 for a tenant
\* without clusters).
ClaimText(e, col) == str_lower(TableRowOf(e, highlight_threshold).vals[col])

ClaimTierNumber(e) ==
    LET t == TableRowOf(e, highlight_threshold).vals[3]
    IN  IF StartsWithMDigit(t) THEN IntOfDigits(SubSeq(t, 2, DigitRunEnd(t, 2)))
        ELSE 0

ClaimDiskSize(e) == IF e.empty THEN 0 ELSE DiskOf(e.c)

\* The disk size as the table shows it, in tenths of a GB.
ShownDiskSize(e) == IF e.empty THEN 0 ELSE (DiskOf(e.c) + 5) \div 10

ClaimColumn(sb) ==
    CASE sb = "project" -> 1
      [] sb = "cluster" -> 2
      [] sb = "provider" -> 5
      [] sb = "region" -> 6

\* a must come strictly before b in the claimed order; Disk(_) is the disk
\* size the order goes by.
ClaimBefore(a, b, sb, Disk(_)) ==
    IF sb = "disk" THEN Disk(a) > Disk(b)
    ELSE IF sb = "tier" THEN ClaimTierNumber(a) < ClaimTierNumber(b)
    ELSE StrLess(ClaimText(a, ClaimColumn(sb)), ClaimText(b, ClaimColumn(sb)))

\* The printed rows are the stable sort of the input rows in that order.
IsStableSortBy(Disk(_)) ==
    LET es == InputEntries
        n == Len(es)
    IN  /\ Len(rows) = n
        /\ \E p \in Perms(n) :
             /\ \A i \in 1..n :
                    rows[i] = TableRowOf(es[p[i]], highlight_threshold)
             /\ \A i, j \in 1..n :
                    i < j =>
                      /\ ~ClaimBefore(es[p[j]], es[p[i]], sort_by, Disk)
                      /\ (~ClaimBefore(es[p[i]], es[p[j]], sort_by, Disk)
                          => p[i] < p[j])

\* C12: print_report prints the rows as the stable sort of the flattened
\* rows by the selected key: descending by disk size for disk, ascending for
\* every other key (text keys ignoring case, tier by the number parsed from
\* "M<digits>" and 0 otherwise); rows of equal keys keep their input order.
C12_StableSortBySelectedKey ==
    ppc = "done" => IsStableSortBy(ClaimDiskSize)

\* The same with the disk size taken as the table shows it, rounded to one
\* decimal: this is what the code does.
C12_StableSortByShownKey ==
    ppc = "done" => IsStableSortBy(ShownDiskSize)

\* The descending disk sort has kept two rows of equal shown size, and
\* another of a different size, in order.
C12_ShownKeyWitness ==
    /\ ppc = "done"
    /\ sort_by = "disk"
    /\ Len(rows) >= 3
    /\ rows[1].vals[10] = rows[2].vals[10]
    /\ rows[1] # rows[2]
    /\ rows[2].vals[10] # rows[3].vals[10]

\* The tenants of the reports that have no clusters, by position.
EmptyTenants(name) ==
    {i \in 1..Len(rreports) :
        rreports[i].project_name = name /\ rreports[i].clusters = <<>>}

ClustersOfTenants(name) ==
    {<<i, k>> \in (1..Len(rreports)) \X (1..MaxRows + 1) :
        /\ rreports[i].project_name = name
        /\ k <= Len(rreports[i].clusters)}

\* A CSV row with only generated_at and project_name filled in.
IsPlaceholderRow(r) ==
    /\ r.cluster_name = <<>> /\ r.tier = <<>> /\ r.cluster_type = <<>>
    /\ r.provider = <<>> /\ r.region = <<>> /\ r.version = <<>>
    /\ r.state = <<>> /\ r.pit = <<>> /\ r.disk_size_gb = <<>>

\* A table row "No clusters" of the tenant.
IsNoClustersRow(r, name) ==
    r.vals = <<name, NoClusters>> \o [i \in 1..8 |-> <<>>]

RECURSIVE SumOfMaxOneClusters(_)
SumOfMaxOneClusters(reps) ==
    IF reps = <<>> THEN 0
    ELSE Max(1, Len(Head(reps).clusters)) + SumOfMaxOneClusters(Tail(reps))

\* C13, the CSV export: one row per cluster of each tenant and one
\* placeholder row per tenant without clusters, so sum of max(1, clusters)
\* rows; a placeholder row has only generated_at and project_name filled in;
\* all rows carry one generated_at.
C13_CsvKeepsEveryTenant ==
    (xpc = "done" /\ out_file.fmt = "csv")
    => LET cs == out_file.rows
       IN  /\ Len(cs) = SumOfMaxOneClusters(rreports)
           /\ \A name \in Names :
                /\ Cardinality({i \in 1..Len(cs) :
                        cs[i].project_name = name /\ IsPlaceholderRow(cs[i])})
                   = Cardinality(EmptyTenants(name))
                /\ Cardinality({i \in 1..Len(cs) :
                        cs[i].project_name = name /\ ~IsPlaceholderRow(cs[i])})
                   = Cardinality(ClustersOfTenants(name))
           /\ \A i, j \in 1..Len(cs) : cs[i].generated_at = cs[j].generated_at
           /\ \A i \in 1..Len(cs) : cs[i].generated_at \in Timestamps

\* C13, the table: whatever the sort key, it has one "No clusters" row per
\* tenant without clusters, and one row per cluster besides.
C13_TableKeepsEveryTenant ==
    ppc = "done"
    => /\ Len(rows) = SumOfMaxOneClusters(rreports)
       /\ \A name \in Names :
            Cardinality({i \in 1..Len(rows) : IsNoClustersRow(rows[i], name)})
            = Cardinality(EmptyTenants(name))

\* C13: no tenant report is dropped from the CSV export or from the table.
C13_EveryTenantInOutput ==
    C13_CsvKeepsEveryTenant /\ C13_TableKeepsEveryTenant

\* C13 witness: a tenant without clusters and a tenant with clusters were
\* exported to CSV and printed, sorted by a key other than the tenant name.
C13_Witness ==
    /\ xpc = "done" /\ out_file.fmt = "csv"
    /\ ppc = "done" /\ sort_by = "tier"
    /\ \E i, j \in 1..Len(rreports) :
         rreports[i].clusters = <<>> /\ Len(rreports[j].clusters) = 2

====
